---- MODULE Spec2Model ----
(***************************************************************************)
(* Rapid Photo Downloader: the collapsible toggle panel (QToggleView,      *)
(* raphodo/ui/toggleview.py) and the gettext bootstrap                     *)
(* (raphodo/__init__.py).                                                  *)
(*                                                                         *)
(* Spec       : one QToggleView driven by its public methods, its slot and *)
(*              the toggle control.                                        *)
(* SpecLocale : one import of the raphodo package, over every environment  *)
(*              and filesystem of the bounded sets below.                  *)
(***************************************************************************)
EXTENDS Integers, Sequences, FiniteSets

VARIABLES
    \* ---- QToggleView ----
    phase,            \* "new" before __init__ has run, "built" after
    toggleSwitch,     \* the state held by self.toggleSwitch (source of truth of on())
    content,          \* self.content: a widget or None
    alternateWidget,  \* self.alternateWidget: the BlankWidget or None
    visible,          \* the visibility flag of every widget (setVisible writes it)
    header,           \* self.header.height()
    baseMinimum,      \* what super().minimumSize() yields: [width, height]
    op,               \* the last operation run
    arg,              \* its argument, as a sequence
    first,            \* whether it was the first call made on the built widget
    signals,          \* the valueChanged(bool) emissions of the last operation
    calls,            \* the toolkit calls of the last operation, in order
    ret,              \* its return value, as a sequence
    \* ---- raphodo/__init__.py ----
    pc,               \* position in the module body
    environ,          \* os.environ: SNAP_NAME, SNAP, RPD_I18N_DIR
    fs,               \* the filesystem facts the module reads
    settings,         \* QSettings Display/language, and what the catalog load does
    localedir,        \* module global localedir
    lang,             \* module global lang
    lang_installed,   \* module global lang_installed
    underscore,       \* builtins._
    via,              \* the return statement locale_directory left by
    loadAttempted     \* whether gettext.translation was called

widgetVars == <<phase, toggleSwitch, content, alternateWidget, visible, header,
                baseMinimum, op, arg, first, signals, calls, ret>>
localeVars == <<pc, environ, fs, settings, localedir, lang, lang_installed,
                underscore, via, loadAttempted>>
vars == <<widgetVars, localeVars>>

\* ------------------------------------------------------------------ bounds
\* Number of widgets a caller may hand to addWidget.
NumWidgets == 2
\* Heights and widths range over 0..MaxDim.
MaxDim == 1
\* Modification times range over 1..MaxMtime.
MaxMtime == 2
\* Longest SNAP_NAME value.
MaxNameLen == 3

\* ---------------------------------------------------------------- QToggleView
\* Python's None, for a widget reference.
None == 0
Widgets == 1..NumWidgets
\* The BlankWidget() instance the constructor creates.
BlankWidget == NumWidgets + 1
AllWidgets == Widgets \cup {BlankWidget}
Dims == 0..MaxDim
Sizes == [width : Dims, height : Dims]

\* The widget as one value: what a method reads and what it leaves behind.
Self ==
    [toggleSwitch |-> toggleSwitch, content |-> content,
     alternateWidget |-> alternateWidget, visible |-> visible,
     header |-> header, baseMinimum |-> baseMinimum,
     signals |-> <<>>, calls |-> <<>>]

\* QWidget.setVisible
setVisible(s, w, v) == [s EXCEPT !.visible[w] = v]

\* QToggleSwitch.on: the control's own state.
QToggleSwitch_on(s) == s.toggleSwitch

\* QToggleView.on
on(s) == QToggleSwitch_on(s)

\* QToggleView.toggled, the slot connected to toggleSwitch.valueChanged
toggled_EmitsArgument(s, value) ==
    LET s1 == IF s.content # None
              THEN LET s2 == setVisible(s, s.content, on(s))
                   IN  IF s2.alternateWidget # None
                       THEN setVisible(s2, s2.alternateWidget, ~on(s2))
                       ELSE s2
              ELSE s
    IN  [s1 EXCEPT !.signals = Append(@, value # 0)]
toggled_AlternateAlways(s, value) ==
    LET s1 == IF s.content # None THEN setVisible(s, s.content, on(s)) ELSE s
        s2 == IF s1.alternateWidget # None
              THEN setVisible(s1, s1.alternateWidget, ~on(s1))
              ELSE s1
    IN  [s2 EXCEPT !.signals = Append(@, on(s2))]
toggled_WritesSwitch(s, value) ==
    LET s0 == [s EXCEPT !.toggleSwitch = (value # 0)]
        s1 == IF s0.content # None
              THEN LET s2 == setVisible(s0, s0.content, on(s0))
                   IN  IF s2.alternateWidget # None
                       THEN setVisible(s2, s2.alternateWidget, ~on(s2))
                       ELSE s2
              ELSE s0
    IN  [s1 EXCEPT !.signals = Append(@, on(s1))]
toggled(s, value) ==
    LET s1 == IF s.content # None
              THEN LET s2 == setVisible(s, s.content, on(s))
                   IN  IF s2.alternateWidget # None
                       THEN setVisible(s2, s2.alternateWidget, ~on(s2))
                       ELSE s2
              ELSE s
    IN  [s1 EXCEPT !.signals = Append(@, on(s1))]

\* QToggleSwitch.setOn: the control takes the value and notifies its
\* valueChanged subscribers (toggled, connected in __init__) with it.
QToggleSwitch_setOn(s, isOn) ==
    toggled([s EXCEPT !.toggleSwitch = isOn], IF isOn THEN 1 ELSE 0)

\* The user flips the control: its value changes and it notifies.
QToggleSwitch_click(s) ==
    toggled([s EXCEPT !.toggleSwitch = ~@], IF s.toggleSwitch THEN 0 ELSE 1)

\* QPanelView.addWidget: the widget becomes the panel's content.
QPanelView_addWidget(s, widget) == [s EXCEPT !.content = widget]

\* QToggleView.__init__
init(s, display_alternate, isOn) ==
    LET s1 == [s EXCEPT !.content = None,
                        !.alternateWidget =
                            IF display_alternate THEN BlankWidget ELSE None]
    IN  QToggleSwitch_setOn(s1, isOn)

\* QToggleView.addWidget
addWidget_NoRefresh(s, widget) == QPanelView_addWidget(s, widget)
addWidget(s, widget) == toggled(QPanelView_addWidget(s, widget), 0)

\* QToggleView.setOn
setOn_Inverted(s, isOn) == QToggleSwitch_setOn(s, ~isOn)
setOn(s, isOn) == QToggleSwitch_setOn(s, isOn)

\* QWidget.updateGeometry and the base class's minimumSize, as calls made.
updateGeometry(s) == [s EXCEPT !.calls = Append(@, "updateGeometry")]
super_minimumSize(s) == [s EXCEPT !.calls = Append(@, "super.minimumSize")]
header_height(s) == [s EXCEPT !.calls = Append(@, "header.height")]

\* QToggleView.minimumHeight: <<state after the call, value returned>>
minimumHeight_NoUpdate(s) ==
    IF ~QToggleSwitch_on(s)
    THEN <<header_height(s), s.header>>
    ELSE <<super_minimumSize(s), s.baseMinimum.height>>
minimumHeight(s) ==
    IF ~QToggleSwitch_on(s)
    THEN <<header_height(s), s.header>>
    ELSE <<super_minimumSize(updateGeometry(s)), s.baseMinimum.height>>

\* QToggleView.minimumSize: <<state after the call, [width, height] returned>>
minimumSize(s) ==
    LET s1 == super_minimumSize(s)
        width == s1.baseMinimum.width
        r == minimumHeight(s1)
    IN  <<r[1], [width |-> width, height |-> r[2]]>>

\* QToggleView.sizeHint
sizeHint(s) == minimumSize(s)

\* The locale half does not move while the widget runs.
LocaleIdle ==
    /\ pc = "idle"
    /\ UNCHANGED localeVars

\* Store what a method left behind and what the caller observed.
Commit(s, name, a, r) ==
    /\ toggleSwitch' = s.toggleSwitch
    /\ content' = s.content
    /\ alternateWidget' = s.alternateWidget
    /\ visible' = s.visible
    /\ header' = s.header
    /\ baseMinimum' = s.baseMinimum
    /\ signals' = s.signals
    /\ calls' = s.calls
    /\ op' = name
    /\ arg' = a
    /\ ret' = r
    /\ first' = (op = "construct")
    /\ phase' = "built"
    /\ LocaleIdle

Construct ==
    /\ phase = "new"
    /\ \E display_alternate \in BOOLEAN, isOn \in BOOLEAN :
          Commit(init(Self, display_alternate, isOn), "construct", <<isOn>>, <<>>)

AddWidget ==
    /\ phase = "built"
    /\ \E widget \in Widgets :
          Commit(addWidget(Self, widget), "addWidget", <<widget>>, <<>>)

On ==
    /\ phase = "built"
    /\ Commit(Self, "on", <<>>, <<on(Self)>>)

SetOn ==
    /\ phase = "built"
    /\ \E isOn \in BOOLEAN :
          Commit(setOn(Self, isOn), "setOn", <<isOn>>, <<>>)

UserToggle ==
    /\ phase = "built"
    /\ Commit(QToggleSwitch_click(Self), "userToggle", <<>>, <<>>)

Toggled ==
    /\ phase = "built"
    /\ \E value \in {0, 1} :
          Commit(toggled(Self, value), "toggled", <<value>>, <<>>)

MinimumHeight ==
    /\ phase = "built"
    /\ LET r == minimumHeight(Self)
       IN  Commit(r[1], "minimumHeight", <<>>, <<r[2]>>)

MinimumSize ==
    /\ phase = "built"
    /\ LET r == minimumSize(Self)
       IN  Commit(r[1], "minimumSize", <<>>, <<r[2]>>)

SizeHint ==
    /\ phase = "built"
    /\ LET r == sizeHint(Self)
       IN  Commit(r[1], "sizeHint", <<>>, <<r[2]>>)

\* The layout system measures again: the header and the container get the
\* sizes their children now ask for.
Relayout ==
    /\ phase = "built"
    /\ \E h \in Dims, m \in Sizes :
          Commit([Self EXCEPT !.header = h, !.baseMinimum = m],
                 "relayout", <<>>, <<>>)

LocaleInitIdle ==
    /\ pc = "idle"
    /\ environ = <<>>
    /\ fs = <<>>
    /\ settings = <<>>
    /\ localedir = <<>>
    /\ lang = ""
    /\ lang_installed = FALSE
    /\ underscore = "unset"
    /\ via = "none"
    /\ loadAttempted = FALSE

Init ==
    /\ phase = "new"
    /\ toggleSwitch = FALSE
    /\ content = None
    /\ alternateWidget = None
    /\ visible \in [AllWidgets -> BOOLEAN]
    /\ header \in Dims
    /\ baseMinimum \in Sizes
    /\ op = "none"
    /\ first = FALSE
    /\ arg = <<>>
    /\ signals = <<>>
    /\ calls = <<>>
    /\ ret = <<>>
    /\ LocaleInitIdle

Next ==
    \/ Construct
    \/ AddWidget
    \/ On
    \/ SetOn
    \/ UserToggle
    \/ Toggled
    \/ MinimumHeight
    \/ MinimumSize
    \/ SizeHint
    \/ Relayout

Spec == Init /\ [][Next]_vars

\* ------------------------------------------------------- raphodo/__init__.py
\* Strings that are searched are sequences of letters; the application
\* identifier searched for in SNAP_NAME is one such word.
Alphabet == {"r", "p"}
AppId == <<"r", "p">>
Names == UNION {[1..n -> Alphabet] : n \in 0..MaxNameLen}

\* str.find: the lowest 0-based index where sub occurs in s, else -1.
find(s, sub) ==
    LET hits == {i \in 0..(Len(s) - Len(sub)) : SubSeq(s, i + 1, i + Len(sub)) = sub}
    IN  IF hits = {} THEN 0 - 1
        ELSE CHOOSE i \in hits : \A j \in hits : i <= j

\* Paths are sequences of components; an absolute path starts with "/".
\* NoDir stands for Python's None (and for the empty string).
NoDir == <<>>
\* os.path.join: an absolute second argument discards the first.
join(a, b) == IF b # <<>> /\ b[1] = "/" THEN b ELSE a \o b

\* sample_translation(): es/LC_MESSAGES/<i18n_domain>.mo
sample_translation == <<"es", "LC_MESSAGES", "rapid-photo-downloader.mo">>

UsrLibLocale == <<"/", "usr", "lib", "locale">>
UsrShare == <<"/", "usr", "share">>
\* QStandardPaths.writableLocation(GenericDataLocation)
data_home == <<"/", "home", "user", ".local", "share">>
\* The value RPD_I18N_DIR holds when it is set.
RpdDir == <<"/", "opt", "i18n">>
SnapRoot == <<"/", "snap", "rapid-photo-downloader", "current">>

Absent == [exists |-> FALSE, readable |-> FALSE, mtime |-> 0]
Present == [exists |-> TRUE, readable |-> TRUE, mtime |-> 1]
FileStates ==
    {Absent} \cup [exists : {TRUE}, readable : BOOLEAN, mtime : 1..MaxMtime]

SnapProbe == join(UsrLibLocale, sample_translation)
RpdProbe == join(RpdDir, sample_translation)
UserProbe == join(join(data_home, <<"locale">>), sample_translation)
SystemProbe == join(join(UsrShare, <<"locale">>), sample_translation)
ProbePaths == {SnapProbe, RpdProbe, UserProbe, SystemProbe}

\* The filesystems: which of the two optional directories exist, and the
\* state of the probe file under each of the four locale directories.  A
\* file exists only inside an existing directory.
FileSystems ==
    {[dirs |-> d,
      files |-> [p \in ProbePaths |->
                    IF p = SnapProbe THEN a
                    ELSE IF p = RpdProbe THEN b
                    ELSE IF p = UserProbe THEN c
                    ELSE e]] :
        d \in SUBSET {RpdDir, data_home},
        a \in {Absent, Present}, b \in {Absent, Present},
        c \in FileStates, e \in FileStates}

WellFormed(f) ==
    /\ f.files[RpdProbe].exists => RpdDir \in f.dirs
    /\ f.files[UserProbe].exists => data_home \in f.dirs

Environments ==
    [SNAP_NAME : Names, SNAP : {NoDir, SnapRoot}, RPD_I18N_DIR : {NoDir, RpdDir}]

\* language: the Display/language preference; default: what
\* locale.getdefaultlocale() gives; catalog: what gettext.translation does.
Settings ==
    [language : {"", "fr"}, default : {"en_US"},
     catalog : {"ok", "FileNotFoundError", "Exception"}]

\* os.path.isdir, os.path.isfile, os.access(R_OK), os.path.getmtime
isdir(f, p) == p \in f.dirs
isfile(f, p) == p \in DOMAIN f.files /\ f.files[p].exists
access_R_OK(f, p) == p \in DOMAIN f.files /\ f.files[p].readable
getmtime(f, p) == f.files[p].mtime

\* One pass of the for loop of locale_directory, lines 71-79.
candidate(f, acc, path) ==
    LET locale_path == join(path, <<"locale">>)
        sample_path == join(locale_path, sample_translation)
    IN  IF /\ isfile(f, sample_path)
           /\ access_R_OK(f, sample_path)
           /\ getmtime(f, sample_path) > acc.locale_mtime
        THEN [acc EXCEPT !.locale_dir = locale_path]
        ELSE acc

\* locale_directory(): [via, raised, value]
locale_directory_OverrideFirst(e, f) ==
    IF e.RPD_I18N_DIR # NoDir /\ isdir(f, e.RPD_I18N_DIR)
    THEN [via |-> "override", raised |-> FALSE, value |-> e.RPD_I18N_DIR]
    ELSE IF find(e.SNAP_NAME, AppId) >= 0
    THEN [via |-> "snap", raised |-> FALSE, value |-> join(e.SNAP, UsrLibLocale)]
    ELSE IF ~isdir(f, data_home)
    THEN [via |-> "candidates", raised |-> TRUE, value |-> NoDir]
    ELSE LET acc0 == [locale_mtime |-> 0, locale_dir |-> NoDir]
             acc1 == candidate(f, acc0, data_home)
             acc2 == candidate(f, acc1, UsrShare)
         IN  [via |-> "candidates", raised |-> FALSE, value |-> acc2.locale_dir]
locale_directory(e, f) ==
    IF find(e.SNAP_NAME, AppId) >= 0
    THEN [via |-> "snap", raised |-> FALSE, value |-> join(e.SNAP, UsrLibLocale)]
    ELSE IF e.RPD_I18N_DIR # NoDir /\ isdir(f, e.RPD_I18N_DIR)
    THEN [via |-> "override", raised |-> FALSE, value |-> e.RPD_I18N_DIR]
    ELSE IF ~isdir(f, data_home)
    THEN [via |-> "candidates", raised |-> TRUE, value |-> NoDir]
    ELSE LET acc0 == [locale_mtime |-> 0, locale_dir |-> NoDir]
             acc1 == candidate(f, acc0, data_home)
             acc2 == candidate(f, acc1, UsrShare)
         IN  [via |-> "candidates", raised |-> FALSE, value |-> acc2.locale_dir]

\* The condition of the if statement at lines 102-104.
probe_found_NoProbeCheck(dir, f) == dir # NoDir
probe_found(dir, f) ==
    dir # NoDir /\ isfile(f, join(dir, sample_translation))

\* Lines 105-111: the preference, else the system default locale.
choose_lang(st) == IF st.language # "" THEN st.language ELSE st.default

\* The try statement at lines 113-122: [installed, underscore, raised]
try_install_OnlyNotFound(st, u) ==
    IF st.catalog = "ok"
    THEN [installed |-> TRUE, underscore |-> "gettext", raised |-> FALSE]
    ELSE IF st.catalog = "FileNotFoundError"
    THEN [installed |-> FALSE, underscore |-> u, raised |-> FALSE]
    ELSE [installed |-> FALSE, underscore |-> u, raised |-> TRUE]
try_install(st, u) ==
    IF st.catalog = "ok"
    THEN [installed |-> TRUE, underscore |-> "gettext", raised |-> FALSE]
    ELSE [installed |-> FALSE, underscore |-> u, raised |-> FALSE]

\* no_translation_performed
no_translation_performed(s) == s

\* What a loaded catalog's gettext answers.
Msgs == {"Download", "Cancel"}
gnulang_gettext(s) == IF s = "Download" THEN "Descargar" ELSE s

\* A call _(s) of the process-wide lookup function.
Translate(s) ==
    IF underscore = "identity" THEN no_translation_performed(s)
    ELSE IF underscore = "gettext" THEN gnulang_gettext(s)
    ELSE "NameError"

\* The widget half does not move while the package is imported.
WidgetIdle ==
    /\ phase = "off"
    /\ UNCHANGED widgetVars

\* Lines 96-100
ResolveLocale ==
    /\ pc = "start"
    /\ LET r == locale_directory(environ, fs)
       IN  /\ pc' = IF r.raised THEN "failed" ELSE "resolved"
           /\ localedir' = r.value
           /\ via' = r.via
    /\ lang' = "None"
    /\ lang_installed' = FALSE
    /\ UNCHANGED <<environ, fs, settings, underscore, loadAttempted>>
    /\ WidgetIdle

\* Lines 102-122
InstallTranslation ==
    /\ pc = "resolved"
    /\ IF probe_found(localedir, fs)
       THEN LET r == try_install(settings, underscore)
            IN  /\ lang' = choose_lang(settings)
                /\ loadAttempted' = TRUE
                /\ lang_installed' = r.installed
                /\ underscore' = r.underscore
                /\ pc' = IF r.raised THEN "failed" ELSE "tried"
       ELSE /\ pc' = "tried"
            /\ UNCHANGED <<lang, loadAttempted, lang_installed, underscore>>
    /\ UNCHANGED <<environ, fs, settings, localedir, via>>
    /\ WidgetIdle

\* Lines 124-127
InstallFallback ==
    /\ pc = "tried"
    /\ pc' = "done"
    /\ underscore' = IF ~lang_installed THEN "identity" ELSE underscore
    /\ UNCHANGED <<environ, fs, settings, localedir, via, lang, lang_installed,
                   loadAttempted>>
    /\ WidgetIdle

WidgetInitIdle ==
    /\ phase = "off"
    /\ toggleSwitch = FALSE
    /\ content = None
    /\ alternateWidget = None
    /\ visible = [w \in AllWidgets |-> FALSE]
    /\ header = 1
    /\ baseMinimum = [width |-> 1, height |-> 1]
    /\ op = "none"
    /\ first = FALSE
    /\ arg = <<>>
    /\ signals = <<>>
    /\ calls = <<>>
    /\ ret = <<>>

InitLocale ==
    /\ pc = "start"
    /\ environ \in Environments
    /\ fs \in {f \in FileSystems : WellFormed(f)}
    /\ settings \in Settings
    /\ localedir = NoDir
    /\ lang = "None"
    /\ lang_installed = FALSE
    /\ underscore = "unset"
    /\ via = "none"
    /\ loadAttempted = FALSE
    /\ WidgetInitIdle

NextLocale ==
    \/ ResolveLocale
    \/ InstallTranslation
    \/ InstallFallback

SpecLocale == InitLocale /\ [][NextLocale]_vars

\* ===================================================================== claims
Built == phase = "built"
ToggleState == on(Self)
Transitions == {"construct", "setOn", "addWidget", "userToggle"}
SizeQueries == {"minimumHeight", "minimumSize", "sizeHint"}

\* C1: with both content and alternateWidget present, after any sequence of
\* toggle-control changes, setOn and addWidget calls, content is visible
\* exactly when the toggle is on and alternateWidget exactly when it is off,
\* so exactly one of the two is visible; the widget handed to addWidget after
\* construction with on=False is hidden with no further call.
C1_VisibilityFollowsToggle ==
    (Built /\ content # None /\ alternateWidget # None) =>
        /\ visible[content] = ToggleState
        /\ visible[alternateWidget] = ~ToggleState
        /\ visible[content] # visible[alternateWidget]

\* C1 witness: built with on=False, then addWidget as the very next call:
\* the content is hidden and the placeholder shown.
C1_Witness ==
    /\ Built /\ first /\ op = "addWidget"
    /\ alternateWidget # None /\ content # None
    /\ ~ToggleState
    /\ ~visible[content] /\ visible[alternateWidget]

\* C2: the constructor, setOn, addWidget and a toggle-control change each
\* emit exactly one valueChanged, carrying the toggle state the operation
\* results in (for addWidget the current state, not the 0 passed to toggled).
C2_OneSignalWithResultingState ==
    (Built /\ op \in Transitions) => signals = <<ToggleState>>

\* C2 witness: addWidget on an expanded panel emitted valueChanged(True).
C2_Witness ==
    /\ Built /\ op = "addWidget" /\ ToggleState /\ signals = <<TRUE>>

\* C7: minimumHeight() is the header's height when the toggle is off,
\* whatever the container's own minimum; when on it is the base class's
\* minimum height, read after an updateGeometry() that happens on that path
\* only.
C7_MinimumHeight ==
    (Built /\ op = "minimumHeight") =>
        IF ~ToggleState
        THEN /\ ret = <<header>>
             /\ \A i \in 1..Len(calls) : calls[i] # "updateGeometry"
        ELSE /\ ret = <<baseMinimum.height>>
             /\ calls = <<"updateGeometry", "super.minimumSize">>

\* C7 witness: an expanded panel whose base minimum height differs from the
\* header's answered minimumHeight() after recalculating its geometry.
C7_Witness ==
    /\ Built /\ op = "minimumHeight" /\ ToggleState /\ content # None
    /\ header # baseMinimum.height
    /\ ret = <<baseMinimum.height>>
    /\ calls = <<"updateGeometry", "super.minimumSize">>

\* C8: setOn(x) followed immediately by on() returns x, with or without
\* content, with or without alternateWidget.
C8_SetOnThenOn ==
    (Built /\ op = "setOn") => on(Self) = arg[1]

\* C8 witness: setOn(False) run on a panel with content and placeholder,
\* which is now off.
C8_Witness ==
    /\ Built /\ op = "setOn" /\ arg = <<FALSE>>
    /\ content # None /\ alternateWidget # None /\ ~on(Self)

\* C9: addWidget, toggled, minimumHeight, minimumSize and sizeHint leave the
\* toggle state as it was: on() returns the same value before and after.
C9_NonToggleOpsKeepState ==
    [][(Built /\ op' \in {"addWidget", "toggled"} \cup SizeQueries)
          => ToggleState' = ToggleState]_vars

\* C9 witness: toggled(1) was called directly on a collapsed panel, which is
\* still collapsed.
C9_Witness ==
    /\ Built /\ op = "toggled" /\ arg = <<1>> /\ ~ToggleState

\* C10: while no content is attached a toggle transition changes no
\* visibility (the alternateWidget's is not set to the negation of the
\* toggle state) and still emits valueChanged.
C10_NoContentNoVisibilityChange ==
    [][(content' = None /\ op' \in Transitions)
          => /\ visible' = visible
             /\ signals' = <<ToggleState'>>]_vars

\* C10 witness: a panel with a placeholder and no content went through setOn
\* and the placeholder's visibility equals the toggle state, not its negation.
C10_Witness ==
    /\ Built /\ content = None /\ alternateWidget # None
    /\ op = "setOn"
    /\ visible[alternateWidget] = ToggleState
    /\ signals = <<ToggleState>>

\* ---- raphodo/__init__.py
Returned == pc \in {"resolved", "tried", "done"}
\* SNAP_NAME contains the application identifier.
SnapApplies ==
    \E i \in 1..Len(environ.SNAP_NAME) :
        /\ i + Len(AppId) - 1 <= Len(environ.SNAP_NAME)
        /\ \A k \in 1..Len(AppId) : environ.SNAP_NAME[i + k - 1] = AppId[k]
\* RPD_I18N_DIR is set and is an existing directory.
OverrideApplies ==
    environ.RPD_I18N_DIR # NoDir /\ environ.RPD_I18N_DIR \in fs.dirs
UserLocale == join(data_home, <<"locale">>)
SystemLocale == join(UsrShare, <<"locale">>)
ProbeOf(dir) == join(dir, sample_translation)
\* The candidates whose probe file exists and is readable.
Qualifying ==
    {d \in {UserLocale, SystemLocale} :
        fs.files[ProbeOf(d)].exists /\ fs.files[ProbeOf(d)].readable}
IdentityLookup == \A s \in Msgs : Translate(s) = s

\* C3: when neither the snap rule nor RPD_I18N_DIR applies, locale_directory
\* returns, among the candidates (per-user data directory, /usr/share, each
\* with locale/) whose probe file exists and is readable, the one whose probe
\* file is newest, and None when neither qualifies.
C3_NewestCandidateWins ==
    (Returned /\ ~SnapApplies /\ ~OverrideApplies) =>
        IF Qualifying = {}
        THEN localedir = NoDir
        ELSE /\ localedir \in Qualifying
             /\ \A d \in Qualifying :
                   fs.files[ProbeOf(localedir)].mtime >= fs.files[ProbeOf(d)].mtime

\* C4: first match wins: the snap rule gives the fixed packaged path whatever
\* RPD_I18N_DIR and the filesystem hold; else an RPD_I18N_DIR that is an
\* existing directory is returned whatever the candidates hold; the candidate
\* comparison is reached only when neither applies.
C4_PriorityOrder ==
    (pc # "start" /\ pc # "idle") =>
        /\ SnapApplies => (Returned /\ via = "snap" /\ localedir = UsrLibLocale)
        /\ (~SnapApplies /\ OverrideApplies) =>
              (Returned /\ via = "override" /\ localedir = environ.RPD_I18N_DIR)
        /\ (via = "candidates") <=> (~SnapApplies /\ ~OverrideApplies)

\* C4 witness: a SNAP_NAME that contains the identifier inside a longer name,
\* with a valid RPD_I18N_DIR and both candidates present: the packaged path
\* was returned.
C4_Witness ==
    /\ Returned /\ SnapApplies /\ OverrideApplies
    /\ Len(environ.SNAP_NAME) > Len(AppId)
    /\ environ.SNAP = SnapRoot
    /\ Qualifying = {UserLocale, SystemLocale}
    /\ localedir = UsrLibLocale

\* C5: a catalog load that fails, with FileNotFoundError or with any other
\* exception, does not fail the module: it ends with lang_installed False
\* and _ the identity.
C5_LoadFailureFallsBack ==
    (loadAttempted /\ settings.catalog # "ok") =>
        /\ pc \in {"tried", "done"}
        /\ ~lang_installed
        /\ pc = "done" => IdentityLookup

\* C5 witness: the load raised an exception other than FileNotFoundError and
\* the module finished with the identity lookup.
C5_Witness ==
    /\ pc = "done" /\ loadAttempted /\ settings.catalog = "Exception"
    /\ ~lang_installed /\ IdentityLookup

\* C6: at the end, lang_installed holds only if locale_directory returned a
\* path, the probe file exists there and the catalog load succeeded; with no
\* directory or no probe file (also for the snap path and for a valid
\* RPD_I18N_DIR) no load is attempted; whenever lang_installed is False _ is
\* the identity.
C6_InstalledOnlyWithProbeAndCatalog ==
    (pc = "done") =>
        /\ lang_installed =>
              /\ localedir # NoDir
              /\ fs.files[ProbeOf(localedir)].exists
              /\ loadAttempted /\ settings.catalog = "ok"
        /\ (localedir = NoDir \/ ~fs.files[ProbeOf(localedir)].exists) =>
              (~loadAttempted /\ ~lang_installed)
        /\ ~lang_installed => IdentityLookup

\* C6 witness: a valid RPD_I18N_DIR without the probe file, a catalog that
\* would load: nothing was loaded and _ is the identity.
C6_Witness ==
    /\ pc = "done" /\ via = "override" /\ localedir = RpdDir
    /\ ~fs.files[RpdProbe].exists /\ settings.catalog = "ok"
    /\ ~loadAttempted /\ ~lang_installed /\ IdentityLookup

====
